---- MODULE Spec2Model ----
(***************************************************************************)
(* Retention store (twitterStorage.addPosts), the side panel's             *)
(* TWEET_DATA_RESPONSE merge, and the background poll/reload orchestrator  *)
(* of the tweets-home-track extension.                                     *)
(***************************************************************************)
EXTENDS Integers, Sequences, FiniteSets, TLC

\* ---------------------------------------------------------------- bounds
MaxId == 2            \* ids of the freely chosen posts: 1..MaxId
MaxAuthor == 1        \* authors of the freely chosen raw tweets: 1..MaxAuthor
MaxInstant == 10      \* newest instant a freely chosen post can carry
MaxBatch == 2         \* longest freely chosen batch
BulkExtra == 5        \* the long feed batch holds MAX_RETAINED + BulkExtra posts
NowStart == 40        \* wall clock at start
MaxTicks == 1         \* how often the wall clock advances
MaxTabs == 1          \* browser tabs: 1..MaxTabs
MaxTimers == 2        \* interval handles: 1..MaxTimers
MaxCalls == 1         \* chrome API calls awaiting their callback at one time
MaxUnanswered == 2    \* scrape requests one content script can be working on
MaxStarts == 2        \* calls of the side panel's startMonitoring
FeedLen == 24         \* feed items the home page can show: 1..FeedLen
MaxView == 3          \* most feed items in the DOM at one time
MaxTextLen == 3       \* longest text of a time element

\* ------------------------------------------------------ program constants
MAX_RETAINED == 20
minTweetsToCollect == 20
maxScrollAttempts == 10

\* ------------------------------------------------------------ time values
\* Date.prototype.toISOString(): a fixed-width text, here two decimal digits.
ToISO(t) == <<t \div 10, t % 10>>

\* new Date(s).getTime(): the instant of a fixed-width text; NaN (the text is
\* not a date, here the empty text) is -1.
GetTime(s) == IF Len(s) = 2 THEN 10 * s[1] + s[2] ELSE -1

\* String.prototype.localeCompare on texts: -1, 0 or 1, character by character,
\* a proper prefix sorting first.
localeCompare(a, b) ==
  LET n == IF Len(a) < Len(b) THEN Len(a) ELSE Len(b)
      diff == {i \in 1..n : a[i] # b[i]}
  IN IF diff = {}
       THEN (IF Len(a) < Len(b) THEN -1 ELSE IF Len(a) > Len(b) THEN 1 ELSE 0)
       ELSE LET k == CHOOSE i \in diff : \A j \in diff : i <= j
            IN IF a[k] < b[k] THEN -1 ELSE 1

\* Array.prototype.sort(cmp): stable; x goes behind every element e that the
\* comparator does not put behind x (cmp(e, x) <= 0).
StableSort(s, cmp(_, _)) ==
  LET Ins(acc, x) ==
        LET k == Cardinality({i \in 1..Len(acc) : cmp(acc[i], x) <= 0})
        IN SubSeq(acc, 1, k) \o <<x>> \o SubSeq(acc, k + 1, Len(acc))
      F[i \in 0..Len(s)] == IF i = 0 THEN <<>> ELSE Ins(F[i - 1], s[i])
  IN F[Len(s)]

\* Array.prototype.slice(0, n)
Slice(s, n) == SubSeq(s, 1, IF Len(s) < n THEN Len(s) ELSE n)

\* Array.prototype.filter
Filter(s, keep(_)) ==
  LET F[i \in 0..Len(s)] ==
        IF i = 0 THEN <<>>
        ELSE IF keep(s[i]) THEN Append(F[i - 1], s[i]) ELSE F[i - 1]
  IN F[Len(s)]

NoRepeat(s) == Cardinality({s[i].id : i \in 1..Len(s)}) = Len(s)
Range(s) == {s[i] : i \in 1..Len(s)}
Ids(s) == {s[i].id : i \in 1..Len(s)}

\* ------------------------------------------------------------------ inputs
SmallInstants == {0, MaxInstant}
BulkLens == {MAX_RETAINED - 1, MAX_RETAINED + BulkExtra}

\* TwitterPost (id, publishTime); author, content and the display text play no
\* part in the store.
TwitterPost == [id : 1..MaxId, publishTime : {ToISO(t) : t \in SmallInstants}]

SeqsUpTo(S, n) == UNION {[1..k -> S] : k \in 0..n}

\* A feed snapshot of n posts with strictly increasing instants 1..n.
BulkPosts(n) == [i \in 1..n |-> [id |-> MaxId + i, publishTime |-> ToISO(i)]]

PostBatches == SeqsUpTo(TwitterPost, MaxBatch) \cup {BulkPosts(n) : n \in BulkLens}

\* RawTweet (author, rawDatetime) as the content script sends it; '' stands for
\* a rawDatetime that new Date() cannot parse.
RawTweet == [author : 1..MaxAuthor, rawDatetime : {ToISO(1), <<>>}]
BulkRaw(n) == [i \in 1..n |-> [author |-> MaxAuthor + i, rawDatetime |-> ToISO(i)]]
RawBatches == SeqsUpTo(RawTweet, MaxBatch) \cup {BulkRaw(n) : n \in BulkLens}

VARIABLES
  build,                                \* which version of the extension runs
  posts, lastFetchTime, isFirstTime,    \* TwitterStorageState
  ret,                                  \* what the last addPosts call returned
  displayedTweets,                      \* side panel: React state
  storedTweets, lastFetchTimestamp,     \* side panel: chrome.storage.local
  notification,                         \* side panel: count shown, -1 when none
  now,                                  \* wall clock
  pc, newPostsOf, currentStateOf, retOf, \* the addPosts calls in flight
  newTweetsOf, isFirstTimeOf,           \* locals of the monitorTwitter runs
  tweetsUpdated,                        \* count of the TWEETS_UPDATED message each
                                        \* run sent, -1 when none
  refreshIntervalId, twitterTabId,      \* background: module state (0 is null)
  isReloadingForScrape, reloadingTabId,
  activeTimers,                         \* intervals set and not cleared
  calls,                                \* chrome API calls awaiting their callback
  tabs, activeTab, loading,             \* the browser's tabs
  unanswered,                           \* scrape requests a tab has not answered
  isLoading, panelMessage,              \* side panel: loading flag; the message
                                        \* the last step sent to it
  isMonitoring, monitoringInterval,     \* monitoring panel: state and interval ref
  monTimers,                            \* its intervals set and not cleared
  startPc, tickPc,                      \* where each startMonitoring call and each
                                        \* interval callback stands
  monTabOpen, tabRemovedListeners,      \* the tabs it opened, its onRemoved listeners
  stopCalled,                           \* stopMonitoring ran, startMonitoring not since
  viewLo, viewHi,                       \* content script: feed items in the DOM at the
                                        \* last extraction step
  collectedTweets, collectedTweetUniqueIdentifiers, scrollAttempts,
  foundNewTweetsInThisScroll,           \* locals of scrapeTweetsWithScrolling
  scrollPc,                             \* where the run stands
  scrolls,                              \* calls of window.scrollTo so far
  scrapeResponse,                       \* payload of SCRAPE_COMPLETE_RESPONSE
  newTweets,                            \* what the last extractTweets call returned
  timeText, parsedAt, publishTime       \* the last parseRelativeTime call: its
                                        \* argument, its instant, its result

storeVars == <<posts, lastFetchTime, isFirstTime, ret>>
panelVars == <<displayedTweets, storedTweets, lastFetchTimestamp, notification>>
callVars == <<pc, newPostsOf, currentStateOf, retOf, newTweetsOf, isFirstTimeOf,
             tweetsUpdated>>
monVars == <<isMonitoring, monitoringInterval, monTimers, startPc, tickPc, monTabOpen,
             tabRemovedListeners, stopCalled>>
contentVars == <<viewLo, viewHi, collectedTweets, collectedTweetUniqueIdentifiers,
                 scrollAttempts, foundNewTweetsInThisScroll, scrollPc, scrolls,
                 scrapeResponse, newTweets, timeText, parsedAt, publishTime>>
bgVars == <<refreshIntervalId, twitterTabId, isReloadingForScrape, reloadingTabId,
            activeTimers, calls, tabs, activeTab, loading, unanswered, isLoading,
            panelMessage>>
vars == <<build, posts, lastFetchTime, isFirstTime, ret, displayedTweets, storedTweets,
          lastFetchTimestamp, notification, now, pc, newPostsOf, currentStateOf, retOf,
          newTweetsOf, isFirstTimeOf, tweetsUpdated,
          refreshIntervalId, twitterTabId, isReloadingForScrape, reloadingTabId,
          activeTimers, calls, tabs, activeTab, loading, unanswered, isLoading,
          panelMessage, isMonitoring, monitoringInterval, monTimers, startPc, tickPc,
          monTabOpen, tabRemovedListeners, stopCalled, viewLo, viewHi, collectedTweets,
          collectedTweetUniqueIdentifiers, scrollAttempts, foundNewTweetsInThisScroll,
          scrollPc, scrolls, scrapeResponse, newTweets, timeText, parsedAt, publishTime>>


\* ------------------------------------------------ background orchestrator
TabIds == 1..MaxTabs

\* chrome API calls whose callback has not run yet
CallKinds ==
  {[api |-> a, tab |-> 0] : a \in {"query", "create"}}
    \cup {[api |-> a, tab |-> t] :
            a \in {"update", "sendMessageManual", "sendMessageReloaded", "reload",
                   "reloadFailed"},
            t \in TabIds}
Call(a, t) == [api |-> a, tab |-> t]
CanCall(inFlight, c) == c \notin inFlight /\ Cardinality(inFlight) < MaxCalls

otherVars == <<build, storeVars, panelVars, now, callVars, monVars, contentVars>>

\* clearInterval(refreshIntervalId); refreshIntervalId = null
stopPeriodicRefresh(id, timers) ==
  IF id # 0 THEN [id |-> 0, timers |-> timers \ {id}]
            ELSE [id |-> id, timers |-> timers]

\* setInterval hands out a handle that no live interval has and that differs
\* from the last one handed out
NewTimer(timers, last) ==
  CHOOSE h \in 1..MaxTimers :
    /\ h \notin timers \cup {last}
    /\ \A g \in 1..MaxTimers : g \notin timers \cup {last} => h <= g

CanStart(timers, last) == \E h \in 1..MaxTimers : h \notin timers \cup {last}

startPeriodicRefreshKeepsOld(id, timers, tabId) ==
  IF tabId = 0 THEN stopPeriodicRefresh(id, timers)
  ELSE [id |-> NewTimer(timers, id), timers |-> timers \cup {NewTimer(timers, id)}]

\* stopPeriodicRefresh(); return when no tab is tracked; setInterval(...)
startPeriodicRefresh(id, timers, tabId) ==
  LET stopped == stopPeriodicRefresh(id, timers)
  IN IF tabId = 0 THEN stopped
     ELSE [id |-> NewTimer(stopped.timers, id),
           timers |-> stopped.timers \cup {NewTimer(stopped.timers, id)}]

\* chrome.runtime.sendMessage to the side panel (content is the payload or the
\* error text), and the panel's listener: either message type ends the
\* loading state
\* the step sends the side panel nothing
Silent == panelMessage' = [type |-> "none", content |-> <<>>]

ToPanel(type, content) ==
  panelMessage' = [type |-> type, content |-> content] /\ isLoading' = FALSE

\* sendScrapeRequestToTabAndUpdateState(tabId), up to the sendMessage call
sendScrapeRequestToTabAndUpdateState(tabId, callsNow) ==
  /\ CanCall(callsNow, Call("sendMessageManual", tabId))
  /\ twitterTabId' = tabId
  /\ calls' = callsNow \cup {Call("sendMessageManual", tabId)}

\* side panel requestTweets and the background's FETCH_TWEETS_REQUEST handler
requestTweets ==
  /\ build = "messaging"
  /\ ~isLoading
  /\ CanCall(calls, Call("query", 0))
  /\ isLoading' = TRUE
  /\ LET stopped == stopPeriodicRefresh(refreshIntervalId, activeTimers)
     IN refreshIntervalId' = stopped.id /\ activeTimers' = stopped.timers
  /\ calls' = calls \cup {Call("query", 0)}
  /\ UNCHANGED <<twitterTabId, isReloadingForScrape, reloadingTabId, tabs, activeTab,
                 loading, unanswered, otherVars>> /\ Silent

queryCallbackAlwaysCreates ==
  LET done == calls \ {Call("query", 0)}
  IN /\ Call("query", 0) \in calls
     /\ CanCall(done, Call("create", 0))
     /\ calls' = done \cup {Call("create", 0)}
     /\ UNCHANGED <<twitterTabId, refreshIntervalId, activeTimers, isReloadingForScrape,
                    reloadingTabId, tabs, activeTab, loading, unanswered, isLoading,
                    otherVars>> /\ Silent

\* callback of chrome.tabs.query
queryCallback ==
  LET done == calls \ {Call("query", 0)}
      homeTabs == {t \in TabIds : tabs[t] = "home"}
      targetTab == CHOOSE t \in homeTabs : \A u \in homeTabs : t <= u
  IN /\ Call("query", 0) \in calls
     /\ IF homeTabs # {}
          THEN IF activeTab # targetTab
                 THEN /\ CanCall(done, Call("update", targetTab))
                      /\ calls' = done \cup {Call("update", targetTab)}
                      /\ UNCHANGED twitterTabId
                 ELSE sendScrapeRequestToTabAndUpdateState(targetTab, done)
          ELSE /\ CanCall(done, Call("create", 0))
               /\ calls' = done \cup {Call("create", 0)}
               /\ UNCHANGED twitterTabId
     /\ UNCHANGED <<refreshIntervalId, activeTimers, isReloadingForScrape, reloadingTabId,
                    tabs, activeTab, loading, unanswered, isLoading,
                    otherVars>> /\ Silent

\* callback of chrome.tabs.update(targetTab.id, {active: true})
updateCallback(t) ==
  LET done == calls \ {Call("update", t)}
  IN /\ Call("update", t) \in calls
     /\ IF tabs[t] # "closed"
          THEN /\ activeTab' = t
               /\ sendScrapeRequestToTabAndUpdateState(t, done)
               /\ UNCHANGED <<refreshIntervalId, activeTimers, isLoading>> /\ Silent
          ELSE /\ ToPanel("FETCH_TWEETS_ERROR", "Failed to activate existing Twitter tab.")
               /\ LET stopped == stopPeriodicRefresh(refreshIntervalId, activeTimers)
                  IN refreshIntervalId' = stopped.id /\ activeTimers' = stopped.timers
               /\ calls' = done
               /\ UNCHANGED <<twitterTabId, activeTab>>
     /\ UNCHANGED <<isReloadingForScrape, reloadingTabId, tabs, loading, unanswered,
                    otherVars>>

\* callback of chrome.tabs.create({url: twitterUrls[0], active: true})
\* (tab ids are taken from 1..MaxTabs: the new tab gets the least id no open
\* tab has)
createCallback(ok) ==
  LET done == calls \ {Call("create", 0)}
      free == {t \in TabIds : tabs[t] = "closed"}
      newTab == CHOOSE t \in free : \A u \in free : t <= u
  IN /\ Call("create", 0) \in calls
     /\ IF ok
          THEN /\ free # {}
               /\ tabs' = [tabs EXCEPT ![newTab] = "home"]
               /\ activeTab' = newTab
               /\ loading' = loading \cup {newTab}
               /\ sendScrapeRequestToTabAndUpdateState(newTab, done)
               /\ UNCHANGED <<refreshIntervalId, activeTimers, isLoading>> /\ Silent
          ELSE /\ ToPanel("FETCH_TWEETS_ERROR", "Failed to create new Twitter tab.")
               /\ LET stopped == stopPeriodicRefresh(refreshIntervalId, activeTimers)
                  IN refreshIntervalId' = stopped.id /\ activeTimers' = stopped.timers
               /\ calls' = done
               /\ UNCHANGED <<twitterTabId, tabs, activeTab, loading>>
     /\ UNCHANGED <<isReloadingForScrape, reloadingTabId, unanswered, otherVars>>

\* What a content script answers: the tweets it collected (possibly none), or
\* the message of the error thrown by the scrape.
ScrapedPayloads == {<<>>, <<[author |-> 1, rawDatetime |-> ToISO(1)]>>}
ScrapeErrors == {"scrape failed"}

\* A sendMessage reaches the content script of an open tab that can take it;
\* otherwise chrome.runtime.lastError is set in the callback.
CanDeliver(t) == tabs[t] # "closed" /\ unanswered[t] < MaxUnanswered

\* sendMessageManualCallback without the stopPeriodicRefresh of line 130
sendMessageManualCallbackKeepsTimer(t, delivered) ==
  /\ Call("sendMessageManual", t) \in calls
  /\ calls' = calls \ {Call("sendMessageManual", t)}
  /\ IF delivered
       THEN /\ CanDeliver(t)
            /\ unanswered' = [unanswered EXCEPT ![t] = @ + 1]
            /\ UNCHANGED <<twitterTabId, isLoading>> /\ Silent
       ELSE /\ ToPanel("FETCH_TWEETS_ERROR", "Failed to send scrape request to Twitter tab")
            /\ twitterTabId' = 0
            /\ UNCHANGED unanswered
  /\ UNCHANGED <<refreshIntervalId, activeTimers, isReloadingForScrape, reloadingTabId,
                 tabs, activeTab, loading, otherVars>>

\* callback of chrome.tabs.sendMessage in sendScrapeRequestToTabAndUpdateState
sendMessageManualCallback(t, delivered) ==
  /\ Call("sendMessageManual", t) \in calls
  /\ calls' = calls \ {Call("sendMessageManual", t)}
  /\ IF delivered
       THEN /\ CanDeliver(t)
            /\ unanswered' = [unanswered EXCEPT ![t] = @ + 1]
            /\ UNCHANGED <<refreshIntervalId, activeTimers, twitterTabId, isLoading>> /\ Silent
       ELSE /\ ToPanel("FETCH_TWEETS_ERROR", "Failed to send scrape request to Twitter tab")
            /\ twitterTabId' = 0
            /\ LET stopped == stopPeriodicRefresh(refreshIntervalId, activeTimers)
               IN refreshIntervalId' = stopped.id /\ activeTimers' = stopped.timers
            /\ UNCHANGED unanswered
  /\ UNCHANGED <<isReloadingForScrape, reloadingTabId, tabs, activeTab, loading,
                 otherVars>>

\* timerCallback without isReloadingForScrape = true (line 48)
timerCallbackNoFlag(h) ==
  LET c == Call(IF tabs[twitterTabId] # "closed" THEN "reload" ELSE "reloadFailed",
                twitterTabId)
  IN /\ h \in activeTimers
     /\ IF twitterTabId = 0
          THEN /\ LET stopped == stopPeriodicRefresh(refreshIntervalId, activeTimers)
                  IN refreshIntervalId' = stopped.id /\ activeTimers' = stopped.timers
               /\ UNCHANGED <<isReloadingForScrape, reloadingTabId, calls, loading,
                              unanswered>>
          ELSE /\ CanCall(calls, c)
               /\ UNCHANGED isReloadingForScrape
               /\ reloadingTabId' = twitterTabId
               /\ calls' = calls \cup {c}
               /\ IF tabs[twitterTabId] # "closed"
                    THEN /\ loading' = loading \cup {twitterTabId}
                         /\ unanswered' = [unanswered EXCEPT ![twitterTabId] = 0]
                    ELSE UNCHANGED <<loading, unanswered>>
               /\ UNCHANGED <<refreshIntervalId, activeTimers>>
     /\ UNCHANGED <<twitterTabId, tabs, activeTab, isLoading, otherVars>> /\ Silent

\* the setInterval callback of startPeriodicRefresh, for a live interval h.
\* chrome.tabs.reload makes an open tab load again: its content script, with
\* the requests it was working on, is gone; on a closed tab the call fails.
timerCallback(h) ==
  LET c == Call(IF tabs[twitterTabId] # "closed" THEN "reload" ELSE "reloadFailed",
                twitterTabId)
  IN /\ h \in activeTimers
     /\ IF twitterTabId = 0
          THEN /\ LET stopped == stopPeriodicRefresh(refreshIntervalId, activeTimers)
                  IN refreshIntervalId' = stopped.id /\ activeTimers' = stopped.timers
               /\ UNCHANGED <<isReloadingForScrape, reloadingTabId, calls, loading,
                              unanswered>>
          ELSE /\ CanCall(calls, c)
               /\ isReloadingForScrape' = TRUE
               /\ reloadingTabId' = twitterTabId
               /\ calls' = calls \cup {c}
               /\ IF tabs[twitterTabId] # "closed"
                    THEN /\ loading' = loading \cup {twitterTabId}
                         /\ unanswered' = [unanswered EXCEPT ![twitterTabId] = 0]
                    ELSE UNCHANGED <<loading, unanswered>>
               /\ UNCHANGED <<refreshIntervalId, activeTimers>>
     /\ UNCHANGED <<twitterTabId, tabs, activeTab, isLoading, otherVars>> /\ Silent

reloadCallbackKeepsFlags(t, lastError) ==
  LET c == Call(IF lastError THEN "reloadFailed" ELSE "reload", t)
  IN /\ c \in calls
     /\ calls' = calls \ {c}
     /\ IF lastError
          THEN /\ LET stopped == stopPeriodicRefresh(refreshIntervalId, activeTimers)
                  IN refreshIntervalId' = stopped.id /\ activeTimers' = stopped.timers
               /\ twitterTabId' = 0
               /\ UNCHANGED <<isReloadingForScrape, reloadingTabId>>
          ELSE UNCHANGED <<refreshIntervalId, activeTimers, twitterTabId,
                           isReloadingForScrape, reloadingTabId>>
     /\ UNCHANGED <<tabs, activeTab, loading, unanswered, isLoading, otherVars>> /\ Silent

\* callback of chrome.tabs.reload; chrome.runtime.lastError is set when the
\* call failed
reloadCallback(t, lastError) ==
  LET c == Call(IF lastError THEN "reloadFailed" ELSE "reload", t)
  IN /\ c \in calls
     /\ calls' = calls \ {c}
     /\ IF lastError
          THEN /\ LET stopped == stopPeriodicRefresh(refreshIntervalId, activeTimers)
                  IN refreshIntervalId' = stopped.id /\ activeTimers' = stopped.timers
               /\ twitterTabId' = 0
               /\ isReloadingForScrape' = FALSE
               /\ reloadingTabId' = 0
          ELSE UNCHANGED <<refreshIntervalId, activeTimers, twitterTabId,
                           isReloadingForScrape, reloadingTabId>>
     /\ UNCHANGED <<tabs, activeTab, loading, unanswered, isLoading,
                    otherVars>> /\ Silent

reloadedTabReadyIgnoresUrl(tabId) ==
  /\ isReloadingForScrape' = FALSE
  /\ reloadingTabId' = 0
  /\ CanCall(calls, Call("sendMessageReloaded", tabId))
  /\ calls' = calls \cup {Call("sendMessageReloaded", tabId)}
  /\ UNCHANGED <<refreshIntervalId, activeTimers, twitterTabId>>

\* chrome.tabs.onUpdated listener, first branch: the pending reload's tab is
\* ready. The flags are reset; a home page gets the scrape request, any other
\* page ends polling.
reloadedTabReady(tabId) ==
  /\ isReloadingForScrape' = FALSE
  /\ reloadingTabId' = 0
  /\ IF tabs[tabId] = "home"
       THEN /\ CanCall(calls, Call("sendMessageReloaded", tabId))
            /\ calls' = calls \cup {Call("sendMessageReloaded", tabId)}
            /\ UNCHANGED <<refreshIntervalId, activeTimers, twitterTabId>>
       ELSE /\ LET stopped == stopPeriodicRefresh(refreshIntervalId, activeTimers)
               IN refreshIntervalId' = stopped.id /\ activeTimers' = stopped.timers
            /\ twitterTabId' = 0
            /\ UNCHANGED calls

onUpdatedListenerAnyStatus(tabId, status) ==
  IF isReloadingForScrape /\ tabId = reloadingTabId
    THEN reloadedTabReady(tabId)
    ELSE UNCHANGED <<isReloadingForScrape, reloadingTabId, refreshIntervalId,
                     activeTimers, twitterTabId, calls>>

onUpdatedListenerAnyTab(tabId, status) ==
  IF isReloadingForScrape /\ status = "complete"
    THEN reloadedTabReady(tabId)
    ELSE UNCHANGED <<isReloadingForScrape, reloadingTabId, refreshIntervalId,
                     activeTimers, twitterTabId, calls>>

\* chrome.tabs.onUpdated listener for an event of tab tabId with
\* changeInfo.status = status
onUpdatedListener(tabId, status) ==
  IF isReloadingForScrape /\ tabId = reloadingTabId /\ status = "complete"
    THEN reloadedTabReady(tabId)
    ELSE IF tabId = reloadingTabId /\ status = "complete" /\ ~isReloadingForScrape
      THEN /\ reloadingTabId' = 0
           /\ UNCHANGED <<isReloadingForScrape, refreshIntervalId, activeTimers,
                          twitterTabId, calls>>
      ELSE UNCHANGED <<isReloadingForScrape, reloadingTabId, refreshIntervalId,
                       activeTimers, twitterTabId, calls>>

\* a loading tab has finished loading: the listener gets status 'complete'
onUpdated(tabId) ==
  /\ tabId \in loading
  /\ loading' = loading \ {tabId}
  /\ onUpdatedListener(tabId, "complete")
  /\ UNCHANGED <<tabs, activeTab, unanswered, isLoading, otherVars>> /\ Silent

\* sendMessageReloadedCallback without the stopPeriodicRefresh of line 88
sendMessageReloadedCallbackKeepsTimer(t, delivered) ==
  /\ Call("sendMessageReloaded", t) \in calls
  /\ calls' = calls \ {Call("sendMessageReloaded", t)}
  /\ IF delivered
       THEN /\ CanDeliver(t)
            /\ unanswered' = [unanswered EXCEPT ![t] = @ + 1]
       ELSE UNCHANGED unanswered
  /\ UNCHANGED <<refreshIntervalId, activeTimers, twitterTabId, isReloadingForScrape,
                 reloadingTabId, tabs, activeTab, loading, isLoading, otherVars>>
  /\ Silent

\* callback of chrome.tabs.sendMessage to the reloaded tab
sendMessageReloadedCallback(t, delivered) ==
  /\ Call("sendMessageReloaded", t) \in calls
  /\ calls' = calls \ {Call("sendMessageReloaded", t)}
  /\ IF delivered
       THEN /\ CanDeliver(t)
            /\ unanswered' = [unanswered EXCEPT ![t] = @ + 1]
            /\ UNCHANGED <<refreshIntervalId, activeTimers>>
       ELSE /\ LET stopped == stopPeriodicRefresh(refreshIntervalId, activeTimers)
               IN refreshIntervalId' = stopped.id /\ activeTimers' = stopped.timers
            /\ UNCHANGED unanswered
  /\ UNCHANGED <<twitterTabId, isReloadingForScrape, reloadingTabId, tabs, activeTab,
                 loading, isLoading, otherVars>> /\ Silent

scrapeCompleteResponseKeepsTimer(t, payload) ==
  /\ unanswered[t] > 0
  /\ unanswered' = [unanswered EXCEPT ![t] = @ - 1]
  /\ ToPanel("TWEET_DATA_RESPONSE", payload)
  /\ IF twitterTabId # 0 /\ refreshIntervalId = 0
       THEN LET started == startPeriodicRefresh(refreshIntervalId, activeTimers, twitterTabId)
            IN refreshIntervalId' = started.id /\ activeTimers' = started.timers
       ELSE UNCHANGED <<refreshIntervalId, activeTimers>>
  /\ UNCHANGED <<twitterTabId, isReloadingForScrape, reloadingTabId, calls, tabs,
                 activeTab, loading, otherVars>>

\* the content script of tab t answers one EXECUTE_SCRAPE_REQUEST with
\* SCRAPE_COMPLETE_RESPONSE; the background's onMessage handler
scrapeCompleteResponse(t, payload) ==
  /\ unanswered[t] > 0
  /\ twitterTabId # 0 => CanStart(activeTimers, refreshIntervalId)
  /\ unanswered' = [unanswered EXCEPT ![t] = @ - 1]
  /\ ToPanel("TWEET_DATA_RESPONSE", payload)
  /\ IF twitterTabId # 0
       THEN LET started == startPeriodicRefresh(refreshIntervalId, activeTimers, twitterTabId)
            IN refreshIntervalId' = started.id /\ activeTimers' = started.timers
       ELSE UNCHANGED <<refreshIntervalId, activeTimers>>
  /\ UNCHANGED <<twitterTabId, isReloadingForScrape, reloadingTabId, calls, tabs,
                 activeTab, loading, otherVars>>

scrapeErrorResponseKeepsTimer(t, error) ==
  /\ unanswered[t] > 0
  /\ unanswered' = [unanswered EXCEPT ![t] = @ - 1]
  /\ ToPanel("FETCH_TWEETS_ERROR", error)
  /\ UNCHANGED <<refreshIntervalId, activeTimers, twitterTabId, isReloadingForScrape,
                 reloadingTabId, calls, tabs, activeTab, loading, otherVars>>

\* ... with SCRAPE_ERROR_RESPONSE
scrapeErrorResponse(t, error) ==
  /\ unanswered[t] > 0
  /\ unanswered' = [unanswered EXCEPT ![t] = @ - 1]
  /\ ToPanel("FETCH_TWEETS_ERROR", error)
  /\ LET stopped == stopPeriodicRefresh(refreshIntervalId, activeTimers)
     IN refreshIntervalId' = stopped.id /\ activeTimers' = stopped.timers
  /\ UNCHANGED <<twitterTabId, isReloadingForScrape, reloadingTabId, calls, tabs,
                 activeTab, loading, otherVars>>

\* the user closes a tab, or leaves / returns to the home page in it
tabClosed(t) ==
  /\ tabs[t] # "closed"
  /\ tabs' = [tabs EXCEPT ![t] = "closed"]
  /\ activeTab' = IF activeTab = t THEN 0 ELSE activeTab
  /\ loading' = loading \ {t}
  /\ unanswered' = [unanswered EXCEPT ![t] = 0]
  /\ UNCHANGED <<refreshIntervalId, twitterTabId, isReloadingForScrape, reloadingTabId,
                 activeTimers, calls, isLoading, otherVars>> /\ Silent

\* the tab starts loading another page: the listener gets status 'loading'
tabNavigated(t) ==
  /\ tabs[t] # "closed"
  /\ tabs' = [tabs EXCEPT ![t] = IF @ = "home" THEN "other" ELSE "home"]
  /\ loading' = loading \cup {t}
  /\ unanswered' = [unanswered EXCEPT ![t] = 0]
  /\ onUpdatedListener(t, "loading")
  /\ UNCHANGED <<activeTab, isLoading, otherVars>> /\ Silent

\* the user brings a tab that is not a Twitter tab to the front, so that the
\* home tab found by the next query has active = false
tabDeactivated ==
  /\ activeTab # 0
  /\ activeTab' = 0
  /\ UNCHANGED <<refreshIntervalId, twitterTabId, isReloadingForScrape, reloadingTabId,
                 activeTimers, calls, tabs, loading, unanswered, isLoading,
                 otherVars>> /\ Silent

\* ------------------------------------------------------- twitterStorage
existingIds(statePosts) == Ids(statePosts)

uniqueNewPosts(newPosts, statePosts) ==
  LET known == existingIds(statePosts)
      keep(post) == post.id \notin known
  IN Filter(newPosts, keep)

\* (a, b) => new Date(b.publishTime).getTime() - new Date(a.publishTime).getTime()
byPublishTimeAsc(a, b) == GetTime(a.publishTime) - GetTime(b.publishTime)

byPublishTimeDesc(a, b) == GetTime(b.publishTime) - GetTime(a.publishTime)

allPostsSliceFirst(unique, statePosts) ==
  StableSort(Slice(unique \o statePosts, MAX_RETAINED), byPublishTimeDesc)

allPosts(unique, statePosts) ==
  Slice(StableSort(unique \o statePosts, byPublishTimeDesc), MAX_RETAINED)

\* storage.set(state => ...) and the return, for the novel posts computed
\* before it.
setAllPosts(unique) ==
  /\ build = "storage"
  /\ UNCHANGED <<bgVars, monVars, contentVars, build, panelVars, now, callVars>>
  /\ ret' = Len(unique)
  /\ isFirstTime' = FALSE
  /\ lastFetchTime' = ToISO(now)
  /\ posts' = allPosts(unique, posts)

addPosts(newPosts) == setAllPosts(uniqueNewPosts(newPosts, posts))

reset ==
  /\ build = "storage"
  /\ posts' = <<>>
  /\ lastFetchTime' = <<>>
  /\ isFirstTime' = TRUE
  /\ UNCHANGED <<bgVars, monVars, contentVars, build, ret, panelVars, now, callVars>>

\* ----------------------------------------------------------- side panel
generateTweetId(rawTweet) == <<rawTweet.author, rawTweet.rawDatetime>>

getSortableTimestamp(rawDatetime) ==
  IF GetTime(rawDatetime) = -1 THEN ToISO(now) ELSE ToISO(GetTime(rawDatetime))

transformedNewTweets(payload) ==
  [i \in 1..Len(payload) |->
     [id |-> generateTweetId(payload[i]),
      rawDatetime |-> payload[i].rawDatetime,
      timestamp |-> getSortableTimestamp(payload[i].rawDatetime)]]

trulyNewTweets(transformed, prevTweets) ==
  LET existingTweetIds == Ids(prevTweets)
      keep(t) == t.id \notin existingTweetIds
  IN Filter(transformed, keep)

\* (a, b) => b.timestamp.localeCompare(a.timestamp)
byTimestampDesc(a, b) == localeCompare(b.timestamp, a.timestamp)

updatedTweetsForDisplayAndStorage(prevTweets, new) ==
  Slice(StableSort(prevTweets \o new, byTimestampDesc), MAX_RETAINED)

\* The updater given to setDisplayedTweets, for the transformed payload.
setDisplayedTweets(transformed) ==
  LET new == trulyNewTweets(transformed, displayedTweets)
      updated == updatedTweetsForDisplayAndStorage(displayedTweets, new)
  IN /\ build = "messaging"
     /\ UNCHANGED <<bgVars, monVars, contentVars, build, storeVars, now, callVars>>
     /\ IF Len(new) = 0
          THEN /\ notification' = 0
               /\ UNCHANGED <<displayedTweets, storedTweets, lastFetchTimestamp>>
          ELSE /\ notification' = Len(new)
               /\ displayedTweets' = updated
               /\ storedTweets' = updated
               /\ lastFetchTimestamp' =
                    IF Len(updated) > 0 THEN updated[1].timestamp ELSE lastFetchTimestamp

\* ------------------------------------------- overlapping addPosts calls
\* monitorTwitter runs from the START_TWITTER_MONITORING listener and from the
\* auto-start timeout; both suspend at every await, so two calls of addPosts
\* can be in flight in one content script.
Procs == {"listener", "autoStart"}

\* Batches as one extraction hands them over: no id twice.
DistinctBatches == {b \in SeqsUpTo(TwitterPost, MaxBatch) : Len(b) > 0 /\ NoRepeat(b)}

\* const currentState = await storage.get()
addPosts_get(p, newPosts) ==
  /\ build = "storage"
  /\ pc[p] = "idle"
  /\ pc' = [pc EXCEPT ![p] = "set"]
  /\ newPostsOf' = [newPostsOf EXCEPT ![p] = newPosts]
  /\ currentStateOf' = [currentStateOf EXCEPT ![p] = posts]
  /\ UNCHANGED <<bgVars, monVars, contentVars, build, storeVars, panelVars, now, retOf,
                 newTweetsOf, isFirstTimeOf, tweetsUpdated>>

\* the rest of addPosts once storage.get() has answered: the novel posts
\* against the state read, storage.set on the state as it is now, the return
addPosts_set(p) ==
  LET unique == uniqueNewPosts(newPostsOf[p], currentStateOf[p])
  IN /\ build = "storage"
     /\ pc[p] = "set"
     /\ pc' = [pc EXCEPT ![p] = "done"]
     /\ retOf' = [retOf EXCEPT ![p] = Len(unique)]
     /\ isFirstTime' = FALSE
     /\ lastFetchTime' = ToISO(now)
     /\ posts' = allPosts(unique, posts)
     /\ UNCHANGED <<bgVars, monVars, contentVars, build, ret, panelVars, now, newPostsOf,
                    currentStateOf, newTweetsOf, isFirstTimeOf, tweetsUpdated>>

\* ------------------------------------------------ monitorTwitter runs
\* A run suspends at every await; a step is the code from one await to the
\* next. What extractTweets returned is an input of the first step.
ExtractedBatches == PostBatches \ {<<>>}
cycleOther == <<bgVars, monVars, contentVars, build, panelVars, now>>

\* getLatestTimestamp taking the last post
getLatestTimestampOfLast(statePosts) ==
  IF Len(statePosts) = 0 THEN -1 ELSE GetTime(statePosts[Len(statePosts)].publishTime)

\* getLatestTimestamp on the posts read (null is -1)
getLatestTimestamp(statePosts) ==
  IF Len(statePosts) = 0 THEN -1 ELSE GetTime(statePosts[1].publishTime)

\* newTweets.filter(tweet => new Date(tweet.publishTime) > latestTimestamp)
newerThan(tweets, latestTimestamp) ==
  LET keep(tweet) == GetTime(tweet.publishTime) > latestTimestamp
  IN Filter(tweets, keep)

\* newTweets = await extractTweets() (not empty), storage = await
\* twitterStorage.get(); on the first time tweetsToSave is the first 20 and
\* addPosts is called with it
monitorTwitter_get(p, tweets) ==
  /\ build = "storage"
  /\ pc[p] = "idle"
  /\ Len(tweets) > 0
  /\ newTweetsOf' = [newTweetsOf EXCEPT ![p] = tweets]
  /\ isFirstTimeOf' = [isFirstTimeOf EXCEPT ![p] = isFirstTime]
  /\ IF isFirstTime
       THEN /\ newPostsOf' = [newPostsOf EXCEPT ![p] = Slice(tweets, 20)]
            /\ pc' = [pc EXCEPT ![p] = "add"]
       ELSE /\ pc' = [pc EXCEPT ![p] = "latest"]
            /\ UNCHANGED newPostsOf
  /\ UNCHANGED <<storeVars, currentStateOf, retOf, tweetsUpdated, cycleOther>>

\* latestTimestamp = await twitterStorage.getLatestTimestamp(); tweetsToSave
\* is what is newer, or the first 20 when the store is empty; a run with
\* nothing to save ends
monitorTwitter_latest(p) ==
  LET latestTimestamp == getLatestTimestamp(posts)
      tweetsToSave ==
        IF Len(posts) # 0 THEN newerThan(newTweetsOf[p], latestTimestamp)
        ELSE Slice(newTweetsOf[p], 20)
  IN /\ build = "storage"
     /\ pc[p] = "latest"
     /\ newPostsOf' = [newPostsOf EXCEPT ![p] = tweetsToSave]
     /\ pc' = [pc EXCEPT ![p] = IF Len(tweetsToSave) > 0 THEN "add" ELSE "done"]
     /\ UNCHANGED <<storeVars, currentStateOf, retOf, newTweetsOf, isFirstTimeOf,
                    tweetsUpdated, cycleOther>>

\* addPosts(tweetsToSave): currentState = await storage.get()
monitorTwitter_add(p) ==
  /\ build = "storage"
  /\ pc[p] = "add"
  /\ pc' = [pc EXCEPT ![p] = "set"]
  /\ currentStateOf' = [currentStateOf EXCEPT ![p] = posts]
  /\ UNCHANGED <<storeVars, newPostsOf, retOf, newTweetsOf, isFirstTimeOf, tweetsUpdated,
                 cycleOther>>

\* count: tweetsToSave.length of the TWEETS_UPDATED message
sentCount(tweetsToSave, returned) == Len(tweetsToSave)

\* storage.set has run, addPosts returns, TWEETS_UPDATED is sent
monitorTwitter_set(p) ==
  LET unique == uniqueNewPosts(newPostsOf[p], currentStateOf[p])
  IN /\ build = "storage"
     /\ pc[p] = "set"
     /\ pc' = [pc EXCEPT ![p] = "done"]
     /\ retOf' = [retOf EXCEPT ![p] = Len(unique)]
     /\ isFirstTime' = FALSE
     /\ lastFetchTime' = ToISO(now)
     /\ posts' = allPosts(unique, posts)
     /\ tweetsUpdated' = [tweetsUpdated EXCEPT ![p] = sentCount(newPostsOf[p], Len(unique))]
     /\ UNCHANGED <<ret, newPostsOf, currentStateOf, newTweetsOf, isFirstTimeOf, cycleOther>>

messageListener(payload) == setDisplayedTweets(transformedNewTweets(payload))

Tick ==
  /\ now < NowStart + MaxTicks
  /\ now' = now + 1
  /\ UNCHANGED <<bgVars, monVars, contentVars, build, storeVars, panelVars, callVars>>

\* ------------------------------------------- monitoring panel (SidePanel)
\* Call i of startMonitoring opens tab i and, when it gets that far, sets
\* interval i.
Starts == 1..MaxStarts
monOther == <<bgVars, build, storeVars, panelVars, now, callVars, contentVars>>

\* startMonitoring up to its first await, chrome.tabs.create; the button is
\* shown while isMonitoring is false
startMonitoring(i) ==
  /\ build = "storage"
  /\ ~isMonitoring
  /\ startPc[i] = "idle"
  /\ \A j \in Starts : j < i => startPc[j] # "idle"
  /\ isMonitoring' = TRUE
  /\ startPc' = [startPc EXCEPT ![i] = "create"]
  /\ stopCalled' = FALSE
  /\ UNCHANGED <<monitoringInterval, monTimers, tickPc, monTabOpen, tabRemovedListeners,
                 monOther>>

\* chrome.tabs.create has answered: the 5-second wait begins, or the catch
\* block runs
startCreated(i, ok) ==
  /\ startPc[i] = "create"
  /\ IF ok
       THEN /\ monTabOpen' = [monTabOpen EXCEPT ![i] = TRUE]
            /\ startPc' = [startPc EXCEPT ![i] = "wait"]
            /\ UNCHANGED isMonitoring
       ELSE /\ isMonitoring' = FALSE
            /\ startPc' = [startPc EXCEPT ![i] = "done"]
            /\ UNCHANGED monTabOpen
  /\ UNCHANGED <<monitoringInterval, monTimers, tickPc, tabRemovedListeners, stopCalled,
                 monOther>>

\* the 5 seconds are over: START_TWITTER_MONITORING is sent to the tab
startWaited(i) ==
  /\ startPc[i] = "wait"
  /\ startPc' = [startPc EXCEPT ![i] = "send"]
  /\ UNCHANGED <<isMonitoring, monitoringInterval, monTimers, tickPc, monTabOpen,
                 tabRemovedListeners, stopCalled, monOther>>

\* chrome.tabs.sendMessage has answered: the interval is set and the
\* onRemoved listener added, or the catch block runs
startSent(i, ok) ==
  /\ startPc[i] = "send"
  /\ startPc' = [startPc EXCEPT ![i] = "done"]
  /\ IF ok
       THEN /\ monTabOpen[i]
            /\ monitoringInterval' = i
            /\ monTimers' = monTimers \cup {i}
            /\ tabRemovedListeners' = tabRemovedListeners \cup {i}
            /\ UNCHANGED isMonitoring
       ELSE /\ isMonitoring' = FALSE
            /\ UNCHANGED <<monitoringInterval, monTimers, tabRemovedListeners>>
  /\ UNCHANGED <<tickPc, monTabOpen, stopCalled, monOther>>

\* clearInterval(monitoringInterval.current) when it is set
clearMonitoringInterval ==
  /\ monTimers' = monTimers \ {monitoringInterval}
  /\ monitoringInterval' = 0

\* stopMonitoring; the button is shown while isMonitoring is true
stopMonitoring ==
  /\ isMonitoring
  /\ clearMonitoringInterval
  /\ isMonitoring' = FALSE
  /\ stopCalled' = TRUE
  /\ UNCHANGED <<startPc, tickPc, monTabOpen, tabRemovedListeners, monOther>>

\* the interval callback up to its first await, chrome.tabs.reload
intervalFire(i) ==
  /\ i \in monTimers
  /\ tickPc[i] = "idle"
  /\ tickPc' = [tickPc EXCEPT ![i] = "reload"]
  /\ UNCHANGED <<isMonitoring, monitoringInterval, monTimers, startPc, monTabOpen,
                 tabRemovedListeners, stopCalled, monOther>>

\* chrome.tabs.reload has answered: the 3-second wait begins, or (tab gone)
\* the catch block logs the error
tickReloaded(i) ==
  /\ tickPc[i] = "reload"
  /\ tickPc' = [tickPc EXCEPT ![i] = IF monTabOpen[i] THEN "wait" ELSE "idle"]
  /\ UNCHANGED <<isMonitoring, monitoringInterval, monTimers, startPc, monTabOpen,
                 tabRemovedListeners, stopCalled, monOther>>

\* the 3 seconds are over: START_TWITTER_MONITORING is sent to the tab
tickWaited(i) ==
  /\ tickPc[i] = "wait"
  /\ tickPc' = [tickPc EXCEPT ![i] = "send"]
  /\ UNCHANGED <<isMonitoring, monitoringInterval, monTimers, startPc, monTabOpen,
                 tabRemovedListeners, stopCalled, monOther>>

\* chrome.tabs.sendMessage has answered (or thrown into the catch block)
tickSent(i) ==
  /\ tickPc[i] = "send"
  /\ tickPc' = [tickPc EXCEPT ![i] = "idle"]
  /\ UNCHANGED <<isMonitoring, monitoringInterval, monTimers, startPc, monTabOpen,
                 tabRemovedListeners, stopCalled, monOther>>

\* the user closes tab i; chrome.tabs.onRemoved runs the tabRemovedListener of
\* call i when it has been added
tabRemoved(i) ==
  /\ monTabOpen[i]
  /\ monTabOpen' = [monTabOpen EXCEPT ![i] = FALSE]
  /\ IF i \in tabRemovedListeners
       THEN /\ clearMonitoringInterval
            /\ isMonitoring' = FALSE
            /\ tabRemovedListeners' = tabRemovedListeners \ {i}
       ELSE UNCHANGED <<monitoringInterval, monTimers, isMonitoring, tabRemovedListeners>>
  /\ UNCHANGED <<startPc, tickPc, stopCalled, monOther>>

\* --------------------------------------------- content script: the feed
\* An article[data-testid="tweet"] element: the text of its User-Name block,
\* the datetime attribute of its time element (<<>>: no time element, or no
\* such attribute), the text of its tweetText element (0: none), and whether
\* a span or the socialContext marks it as promoted.
NoTextAt == 2         \* a feed item without tweet text
NoTimeAt == 3         \* a feed item without machine-readable datetime
TwinAt == 5           \* same author and second as the item before it, other text
BadTimeAt == 6        \* a feed item whose datetime attribute is not a date
PromotedAt == 7       \* a promoted feed item
NotADate == <<9, 9, 9>>

Feed(i) ==
  [userName |-> IF i = TwinAt THEN i - 1 ELSE i,
   datetime |-> IF i = NoTimeAt THEN <<>>
                ELSE IF i = BadTimeAt THEN NotADate
                ELSE IF i = TwinAt THEN ToISO(i - 1) ELSE ToISO(i),
   tweetText |-> IF i = NoTextAt THEN 0 ELSE i,
   promoted |-> i = PromotedAt]

\* The items in the DOM are a window lo..hi of the feed (hi = lo - 1: none).
\* The DOM holds at most MaxView items, or the feed from some item to its end.
IsWindow(lo, hi) ==
  /\ lo \in 1..(FeedLen + 1) /\ hi \in 0..FeedLen
  /\ hi >= lo - 1
  /\ hi - lo + 1 <= MaxView \/ hi = FeedLen
\* The page opens at the top of the feed or at its first plain item.
FirstViews == {v \in {1, PromotedAt + 1} \X (0..FeedLen) : IsWindow(v[1], v[2])}
\* Scrolling to the bottom moves the window down the feed, never up, and past
\* no item.
NextViews(lo0, hi0) ==
  {v \in (lo0..(hi0 + 1)) \X ((hi0..(hi0 + MaxView)) \cup {FeedLen}) : IsWindow(v[1], v[2])}

\* display texts: 'N/A', 'Invalid Date', and what the date getters give
NA == <<-3>>
InvalidDate == <<-4>>
formatDisplayTimestamp(dateTimeString) ==
  IF dateTimeString = <<>> THEN NA
  ELSE LET t == GetTime(dateTimeString)
       IN IF t = -1 THEN <<-1, -1>>     \* 'NaN/NaN/NaN NaN:NaN:NaN'
          ELSE <<t \div 10, t % 10>>

\* what scrapeCurrentViewPortTweets makes of one element at instant t
scrapeElement(el, t) ==
  LET rawDatetime == IF el.datetime # <<>> THEN el.datetime ELSE ToISO(t)
  IN [author |-> el.userName,
      displayTimestamp |-> formatDisplayTimestamp(rawDatetime),
      content |-> el.tweetText,
      rawDatetime |-> rawDatetime]

scrapeCurrentViewPortTweets(lo, hi, t) ==
  LET F[i \in (lo - 1)..hi] ==
        IF i = lo - 1 THEN <<>>
        ELSE LET el == Feed(i)
                 tweet == scrapeElement(el, t)
             IN IF el.promoted THEN F[i - 1]
                ELSE IF /\ tweet.content # 0
                        /\ tweet.displayTimestamp # NA
                        /\ tweet.displayTimestamp # InvalidDate
                       THEN Append(F[i - 1], tweet)
                       ELSE F[i - 1]
  IN F[hi]

\* ------------------------------------- content script: scroll collector
\* const uniqueKey = `${tweet.author}-${tweet.rawDatetime}`
uniqueKey(tweet) == <<tweet.author, tweet.rawDatetime>>

\* newTweetsInView.forEach(...): the locals after the loop over the view.
\* Before the i-th tweet the identifier set holds what it held at the start
\* and the keys of the tweets before it.
identifiersBefore(newTweetsInView, i) ==
  collectedTweetUniqueIdentifiers \cup {uniqueKey(newTweetsInView[j]) : j \in 1..(i - 1)}

\* collectNewTweets putting a new tweet in front (unshift instead of push)
collectNewTweetsInFront(newTweetsInView) ==
  LET n == Len(newTweetsInView)
      isNew(i) == uniqueKey(newTweetsInView[i]) \notin identifiersBefore(newTweetsInView, i)
      T[i \in 0..n] ==
        IF i = 0 THEN collectedTweets
        ELSE IF isNew(i) THEN <<newTweetsInView[i]>> \o T[i - 1] ELSE T[i - 1]
  IN [tweets |-> T[n],
      ids |-> identifiersBefore(newTweetsInView, n + 1),
      found |-> \E i \in 1..n : isNew(i)]

collectNewTweets(newTweetsInView) ==
  LET n == Len(newTweetsInView)
      isNew(i) == uniqueKey(newTweetsInView[i]) \notin identifiersBefore(newTweetsInView, i)
      T[i \in 0..n] ==
        IF i = 0 THEN collectedTweets
        ELSE IF isNew(i) THEN Append(T[i - 1], newTweetsInView[i]) ELSE T[i - 1]
  IN [tweets |-> T[n],
      ids |-> identifiersBefore(newTweetsInView, n + 1),
      found |-> \E i \in 1..n : isNew(i)]

\* the loop's condition without its bound on the attempts
keepScrollingNoLimit == Len(collectedTweets) < minTweetsToCollect

\* the loop's condition
keepScrolling ==
  Len(collectedTweets) < minTweetsToCollect /\ scrollAttempts < maxScrollAttempts

\* return collectedTweets, and the listener's then(): SCRAPE_COMPLETE_RESPONSE
returnCollected(tweets) ==
  /\ scrollPc' = "returned"
  /\ scrapeResponse' = tweets

\* scrollLoopBody breaking on a first pass without new tweets as well
scrollLoopBodyBreaksOnFirst(lo, hi, t) ==
  /\ viewLo' = lo /\ viewHi' = hi
  /\ \E newTweetsInView \in {scrapeCurrentViewPortTweets(lo, hi, t)} :
     \E after \in {collectNewTweets(newTweetsInView)} :
     /\ collectedTweets' = after.tweets
     /\ collectedTweetUniqueIdentifiers' = after.ids
     /\ foundNewTweetsInThisScroll' = after.found
     /\ scrollAttempts' = scrollAttempts + 1
     /\ IF \/ Len(after.tweets) >= minTweetsToCollect /\ scrollAttempts + 1 > 0
           \/ ~after.found /\ scrollAttempts + 1 > 0
          THEN returnCollected(after.tweets) /\ UNCHANGED scrolls
          ELSE /\ scrolls' = scrolls + 1
               /\ scrollPc' = "delay"
               /\ UNCHANGED scrapeResponse

\* One pass through the loop's body on the view lo..hi at instant t: extract,
\* take the novel tweets, count the attempt, then break or scroll and suspend.
scrollLoopBody(lo, hi, t) ==
  /\ viewLo' = lo /\ viewHi' = hi
  /\ \E newTweetsInView \in {scrapeCurrentViewPortTweets(lo, hi, t)} :
     \E after \in {collectNewTweets(newTweetsInView)} :
     /\ collectedTweets' = after.tweets
     /\ collectedTweetUniqueIdentifiers' = after.ids
     /\ foundNewTweetsInThisScroll' = after.found
     /\ scrollAttempts' = scrollAttempts + 1
     /\ IF \/ Len(after.tweets) >= minTweetsToCollect /\ scrollAttempts + 1 > 0
           \/ ~after.found /\ scrollAttempts + 1 > 1
          THEN returnCollected(after.tweets) /\ UNCHANGED scrolls
          ELSE /\ scrolls' = scrolls + 1
               /\ scrollPc' = "delay"
               /\ UNCHANGED scrapeResponse

scrollOther == <<bgVars, monVars, build, storeVars, panelVars, callVars, newTweets,
                 timeText, parsedAt, publishTime>>

\* EXECUTE_SCRAPE_REQUEST arrives: scrapeTweetsWithScrolling up to its first
\* await (or its return)
executeScrapeRequest(lo, hi) ==
  /\ build = "messaging"
  /\ scrollPc = "idle"
  /\ <<lo, hi>> \in FirstViews
  /\ scrollLoopBody(lo, hi, now)
  /\ UNCHANGED <<now, scrollOther>>

\* the scrollDelayMs timeout fires: the loop's condition, then the next pass
\* or the return
scrollDelayElapsed(lo, hi) ==
  /\ scrollPc = "delay"
  /\ now' = now + 1
  /\ IF keepScrolling
       THEN /\ <<lo, hi>> \in NextViews(viewLo, viewHi)
            /\ scrollLoopBody(lo, hi, now + 1)
       ELSE /\ lo = viewLo /\ hi = viewHi
            /\ returnCollected(collectedTweets)
            /\ UNCHANGED <<viewLo, viewHi, collectedTweets, collectedTweetUniqueIdentifiers,
                           scrollAttempts, foundNewTweetsInThisScroll, scrolls>>
  /\ UNCHANGED scrollOther

\* ------------------------------- content script of the storage build
\* Texts are tuples of characters; the texts hashed into an id are tuples of
\* their bytes (ASCII).
Digits == {"0", "1", "2", "3", "4", "5", "6", "7", "8", "9"}
Units == {"s", "m", "h", "d"}
DigitValue ==
  "0" :> 0 @@ "1" :> 1 @@ "2" :> 2 @@ "3" :> 3 @@ "4" :> 4 @@ "5" :> 5 @@ "6" :> 6
    @@ "7" :> 7 @@ "8" :> 8 @@ "9" :> 9

\* parseInt of a text of decimal digits
parseInt(digits) ==
  LET F[i \in 0..Len(digits)] ==
        IF i = 0 THEN 0 ELSE 10 * F[i - 1] + DigitValue[digits[i]]
  IN F[Len(digits)]

\* the position behind the digits that start at position i
RunEnd(text, i) ==
  CHOOSE k \in i..(Len(text) + 1) :
    /\ \A j \in i..(k - 1) : text[j] \in Digits
    /\ k = Len(text) + 1 \/ text[k] \notin Digits

\* timeText.match(/(\d+)([smhd])/): the positions where the pattern matches
matchStarts(text) ==
  {i \in 1..Len(text) :
     /\ text[i] \in Digits
     /\ RunEnd(text, i) <= Len(text)
     /\ text[RunEnd(text, i)] \in Units}

\* parseRelativeTime with every unit taken as seconds
parseRelativeTimeAllSeconds(text, t) ==
  IF matchStarts(text) = {} THEN t
  ELSE LET i == CHOOSE k \in matchStarts(text) : \A j \in matchStarts(text) : k <= j
           value == parseInt(SubSeq(text, i, RunEnd(text, i) - 1))
       IN t - value * 1000

\* parseRelativeTime at instant t (milliseconds)
parseRelativeTime(text, t) ==
  IF matchStarts(text) = {} THEN t
  ELSE LET i == CHOOSE k \in matchStarts(text) : \A j \in matchStarts(text) : k <= j
           value == parseInt(SubSeq(text, i, RunEnd(text, i) - 1))
           unit == text[RunEnd(text, i)]
       IN CASE unit = "s" -> t - value * 1000
            [] unit = "m" -> t - value * 60 * 1000
            [] unit = "h" -> t - value * 60 * 60 * 1000
            [] unit = "d" -> t - value * 24 * 60 * 60 * 1000

\* the texts a time element is tried with
TimeChars == {"1", "h", "x"}
TimeTexts ==
  SeqsUpTo(TimeChars, MaxTextLen)
    \cup {<<"2", "h">>, <<"1", "s">>, <<"0", "9", "s">>, <<"2", "m">>, <<"1", "2", "m">>, <<"1", "d">>,
          <<"2", "0", "d">>, <<"x", "3", "d", "1", "h">>, <<"m", "5", "s", "m">>}

\* Date values are milliseconds; the clock of the model counts seconds. The
\* time value of an Invalid Date is NaN, here -1 (every instant that occurs is
\* a whole number of seconds, so that -1 is no instant).
NaN == -1
DateNow == 1000 * now

\* new Date(dateTimeAttr).getTime()
getTimeOfAttr(dateTimeAttr) ==
  IF GetTime(dateTimeAttr) = -1 THEN NaN ELSE 1000 * GetTime(dateTimeAttr)

\* String(n) as bytes, n an integer or NaN
numberBytes(n) ==
  LET P[k \in Nat] == IF k < 10 THEN <<48 + k>> ELSE P[k \div 10] \o <<48 + (k % 10)>>
  IN IF n = NaN THEN <<78, 97, 78>>
     ELSE IF n < 0 THEN <<45>> \o P[0 - n] ELSE P[n]

\* btoa: three bytes give four sextets; a last group of one or two bytes gives
\* two or three sextets and '=' padding
btoa(bytes) ==
  LET n == Len(bytes)
      at(i) == IF i <= n THEN bytes[i] ELSE 0
      group(g) ==
        LET b1 == at(3 * g - 2)
            b2 == at(3 * g - 1)
            b3 == at(3 * g)
            all == <<b1 \div 4, (b1 % 4) * 16 + b2 \div 16, (b2 % 16) * 4 + b3 \div 64,
                     b3 % 64>>
        IN IF 3 * g <= n THEN all
           ELSE IF 3 * g - 1 <= n THEN SubSeq(all, 1, 3) \o <<64>>
           ELSE SubSeq(all, 1, 2) \o <<64, 64>>
      F[g \in 0..((n + 2) \div 3)] == IF g = 0 THEN <<>> ELSE F[g - 1] \o group(g)
  IN F[(n + 2) \div 3]

\* .replace(/[^a-zA-Z0-9]/g, ''): the sextets 62 ('+'), 63 ('/') and the
\* padding (64) go
alphanumeric(sextets) ==
  LET F[i \in 0..Len(sextets)] ==
        IF i = 0 THEN <<>>
        ELSE IF sextets[i] < 62 THEN Append(F[i - 1], sextets[i]) ELSE F[i - 1]
  IN F[Len(sextets)]

\* the id of a tweet: idSource = author + content + publishTime.getTime(),
\* base64 of its bytes, alphanumeric characters only, the first 16. (An id
\* comes out empty for no source here, so the random fallback id is not drawn.)
tweetId(author, content, time) ==
  Slice(alphanumeric(btoa(author \o content \o numberBytes(time))), 16)

\* formatTimestamp(date): the date getters of an Invalid Date give NaN
\* and the text is made of 'NaN'; the text of a date is here its second
formatTimestamp(time) == IF time = NaN THEN <<NaN>> ELSE <<time \div 1000>>

\* date.toISOString() of a valid date: here the text of its time value
toISOString(time) == numberBytes(time)

\* The [data-testid="tweet"] elements of the page: the text of the first span
\* of the User-Name block (<<>>: none), the text of the tweetText element
\* (<<>>: none), the datetime attribute and the text of the time element
\* (<<>>: none), and whether the ad detection matches.
Unknown == <<85, 110, 107, 110, 111, 119, 110>>                          \* 'Unknown'
Bo == <<66, 111>>                                                       \* 'Bo'
AliceWonder == <<65, 108, 105, 99, 101, 32, 87, 111, 110, 100, 101, 114>> \* 'Alice Wonder'
ArticleCount == 8
Article(i) ==
  CASE i = 1 -> [userName |-> AliceWonder, tweetText |-> <<111, 110, 101>>,
                 dateTimeAttr |-> ToISO(10), timeText |-> <<"1", "h">>, isAd |-> FALSE]
    [] i = 2 -> [userName |-> AliceWonder, tweetText |-> <<116, 119, 111>>,
                 dateTimeAttr |-> ToISO(20), timeText |-> <<"2", "m">>, isAd |-> FALSE]
    [] i = 3 -> [userName |-> Bo, tweetText |-> <<>>,
                 dateTimeAttr |-> ToISO(30), timeText |-> <<"5", "s">>, isAd |-> FALSE]
    [] i = 4 -> [userName |-> Bo, tweetText |-> <<104, 105>>,
                 dateTimeAttr |-> ToISO(35), timeText |-> <<"1", "h">>, isAd |-> FALSE]
    [] i = 5 -> [userName |-> <<>>, tweetText |-> <<110, 111, 119>>,
                 dateTimeAttr |-> <<>>, timeText |-> <<>>, isAd |-> FALSE]
    [] i = 6 -> [userName |-> Bo, tweetText |-> <<111, 107>>,
                 dateTimeAttr |-> NotADate, timeText |-> <<"1", "d">>, isAd |-> FALSE]
    [] i = 7 -> [userName |-> Bo, tweetText |-> <<114, 101, 108>>,
                 dateTimeAttr |-> <<>>, timeText |-> <<"2", "h">>, isAd |-> FALSE]
    [] OTHER -> [userName |-> Bo, tweetText |-> <<97, 100>>,
                 dateTimeAttr |-> ToISO(38), timeText |-> <<>>, isAd |-> TRUE]

\* the publishTime extractTweets gives an element at instant t (-1: Invalid Date)
elementPublishTime(el, t) ==
  IF el.dateTimeAttr # <<>> THEN getTimeOfAttr(el.dateTimeAttr)
  ELSE parseRelativeTime(el.timeText, t)

\* the tweet made of one element at instant t
extractTweet(el, t) ==
  LET author == IF el.userName # <<>> THEN el.userName ELSE Unknown
      content == el.tweetText
      time == elementPublishTime(el, t)
  IN [id |-> tweetId(author, content, time),
      author |-> author,
      content |-> content,
      timestamp |-> formatTimestamp(time),
      publishTime |-> toISOString(time)]

\* extractTweets on the elements lo..hi at instant t: ads are skipped, and so
\* is an element whose publishTime.toISOString() throws (Invalid Date)
extractTweetsOf(lo, hi, t) ==
  LET F[i \in (lo - 1)..hi] ==
        IF i = lo - 1 THEN <<>>
        ELSE IF Article(i).isAd \/ elementPublishTime(Article(i), t) = NaN THEN F[i - 1]
        ELSE Append(F[i - 1], extractTweet(Article(i), t))
  IN F[hi]

\* the elements in the DOM: at most MaxView of them, at the top or at the end
\* of the list
ArticleViews ==
  {v \in (1..(ArticleCount + 1)) \X (0..ArticleCount) :
     /\ v[2] >= v[1] - 1 /\ v[2] - v[1] + 1 <= MaxView
     /\ v[1] = 1 \/ v[2] = ArticleCount}

extractOther == <<bgVars, monVars, build, storeVars, panelVars, callVars, now>>

\* const newTweets = await extractTweets(), the elements lo..hi in the DOM
extractTweets(lo, hi) ==
  /\ build = "storage"
  /\ <<lo, hi>> \in ArticleViews
  /\ viewLo' = lo /\ viewHi' = hi
  /\ newTweets' = extractTweetsOf(lo, hi, DateNow)
  /\ UNCHANGED <<collectedTweets, collectedTweetUniqueIdentifiers, scrollAttempts,
                 foundNewTweetsInThisScroll, scrollPc, scrolls, scrapeResponse,
                 timeText, parsedAt, publishTime, extractOther>>

\* publishTime = parseRelativeTime(timeText)
parseTimeText(text) ==
  /\ build = "storage"
  /\ timeText' = text
  /\ parsedAt' = now
  /\ publishTime' = parseRelativeTime(text, DateNow)
  /\ UNCHANGED <<viewLo, viewHi, collectedTweets, collectedTweetUniqueIdentifiers,
                 scrollAttempts, foundNewTweetsInThisScroll, scrollPc, scrolls,
                 scrapeResponse, newTweets, extractOther>>

\* The repository holds two versions of the pipeline: the content script that
\* writes twitterStorage itself ("storage"), and the background/side-panel
\* message pipeline ("messaging"). One of them is installed.
Init ==
  /\ build \in {"storage", "messaging"}
  /\ posts = <<>>
  /\ lastFetchTime = <<>>
  /\ isFirstTime = TRUE
  /\ ret = 0
  /\ displayedTweets = <<>>
  /\ storedTweets = <<>>
  /\ lastFetchTimestamp = <<>>
  /\ notification = -1
  /\ now = NowStart
  /\ pc = [p \in Procs |-> "idle"]
  /\ newPostsOf = [p \in Procs |-> <<>>]
  /\ currentStateOf = [p \in Procs |-> <<>>]
  /\ retOf = [p \in Procs |-> 0]
  /\ newTweetsOf = [p \in Procs |-> <<>>]
  /\ isFirstTimeOf = [p \in Procs |-> TRUE]
  /\ tweetsUpdated = [p \in Procs |-> -1]
  /\ refreshIntervalId = 0
  /\ twitterTabId = 0
  /\ isReloadingForScrape = FALSE
  /\ reloadingTabId = 0
  /\ activeTimers = {}
  /\ calls = {}
  /\ tabs = [t \in TabIds |-> "closed"]
  /\ activeTab = 0
  /\ loading = {}
  /\ unanswered = [t \in TabIds |-> 0]
  /\ isLoading = FALSE
  /\ panelMessage = [type |-> "none", content |-> <<>>]
  /\ isMonitoring = FALSE
  /\ monitoringInterval = 0
  /\ monTimers = {}
  /\ startPc = [i \in 1..MaxStarts |-> "idle"]
  /\ tickPc = [i \in 1..MaxStarts |-> "idle"]
  /\ monTabOpen = [i \in 1..MaxStarts |-> FALSE]
  /\ tabRemovedListeners = {}
  /\ stopCalled = FALSE
  /\ viewLo = 1
  /\ viewHi = 0
  /\ collectedTweets = <<>>
  /\ collectedTweetUniqueIdentifiers = {}
  /\ scrollAttempts = 0
  /\ foundNewTweetsInThisScroll = FALSE
  /\ scrollPc = "idle"
  /\ scrolls = 0
  /\ scrapeResponse = <<>>
  /\ newTweets = <<>>
  /\ timeText = <<>>
  /\ parsedAt = now
  /\ publishTime = DateNow

Next ==
  \/ \E newPosts \in PostBatches : addPosts(newPosts)
  \/ reset
  \/ \E payload \in RawBatches : messageListener(payload)
  \/ Tick

Spec == Init /\ [][Next]_vars

InitCalls == Init /\ build = "storage"
NextCalls ==
  \/ \E p \in Procs : \E newPosts \in DistinctBatches : addPosts_get(p, newPosts)
  \/ \E p \in Procs : addPosts_set(p)
SpecCalls == InitCalls /\ [][NextCalls]_vars

InitCycle == Init /\ build = "storage"
NextCycle ==
  \/ \E p \in Procs : \E tweets \in ExtractedBatches : monitorTwitter_get(p, tweets)
  \/ \E p \in Procs : monitorTwitter_latest(p)
  \/ \E p \in Procs : monitorTwitter_add(p)
  \/ \E p \in Procs : monitorTwitter_set(p)
SpecCycle == InitCycle /\ [][NextCycle]_vars

InitMon == Init /\ build = "storage"
NextMon ==
  \/ \E i \in Starts : startMonitoring(i)
  \/ \E i \in Starts : \E ok \in BOOLEAN : startCreated(i, ok)
  \/ \E i \in Starts : startWaited(i)
  \/ \E i \in Starts : \E ok \in BOOLEAN : startSent(i, ok)
  \/ stopMonitoring
  \/ \E i \in Starts : intervalFire(i)
  \/ \E i \in Starts : tickReloaded(i)
  \/ \E i \in Starts : tickWaited(i)
  \/ \E i \in Starts : tickSent(i)
  \/ \E i \in Starts : tabRemoved(i)
SpecMon == InitMon /\ [][NextMon]_vars

InitScroll == Init /\ build = "messaging"
NextScroll ==
  \/ \E v \in FirstViews : executeScrapeRequest(v[1], v[2])
  \/ \E v \in NextViews(viewLo, viewHi) : scrollDelayElapsed(v[1], v[2])
SpecScroll == InitScroll /\ [][NextScroll]_vars
\* setTimeout(resolve, scrollDelayMs): the timeout fires
SpecScrollFair ==
  SpecScroll /\ WF_vars(\E v \in NextViews(viewLo, viewHi) : scrollDelayElapsed(v[1], v[2]))

InitExtract == Init /\ build = "storage"
NextExtract ==
  \/ \E v \in ArticleViews : extractTweets(v[1], v[2])
  \/ \E text \in TimeTexts : parseTimeText(text)
  \/ Tick
SpecExtract == InitExtract /\ [][NextExtract]_vars

InitBg == Init /\ build = "messaging"
NextBg ==
  \/ requestTweets
  \/ queryCallback
  \/ \E t \in TabIds : updateCallback(t)
  \/ \E ok \in BOOLEAN : createCallback(ok)
  \/ \E t \in TabIds : \E delivered \in BOOLEAN : sendMessageManualCallback(t, delivered)
  \/ \E h \in 1..MaxTimers : timerCallback(h)
  \/ \E t \in TabIds : \E lastError \in BOOLEAN : reloadCallback(t, lastError)
  \/ \E t \in TabIds : onUpdated(t)
  \/ \E t \in TabIds : \E delivered \in BOOLEAN : sendMessageReloadedCallback(t, delivered)
  \/ \E t \in TabIds : \E payload \in ScrapedPayloads : scrapeCompleteResponse(t, payload)
  \/ \E t \in TabIds : \E error \in ScrapeErrors : scrapeErrorResponse(t, error)
  \/ \E t \in TabIds : tabClosed(t)
  \/ \E t \in TabIds : tabNavigated(t)
  \/ tabDeactivated
SpecBg == InitBg /\ [][NextBg]_vars

\* The interval fires again and again while it is set, every chrome API call
\* is answered, and every tab that is loading gets its load-complete event.
SpecBgFair ==
  /\ SpecBg
  /\ WF_vars(\E h \in 1..MaxTimers : timerCallback(h))
  /\ WF_vars(queryCallback)
  /\ WF_vars(\E ok \in BOOLEAN : createCallback(ok))
  /\ \A t \in TabIds :
       /\ WF_vars(updateCallback(t))
       /\ WF_vars(\E delivered \in BOOLEAN : sendMessageManualCallback(t, delivered))
       /\ WF_vars(\E lastError \in BOOLEAN : reloadCallback(t, lastError))
       /\ SF_vars(onUpdated(t))

\* ------------------------------------------------------------ properties
Min(a, b) == IF a < b THEN a ELSE b

\* C1: after any sequence of merge calls from the empty store, no two entries
\* of the retained posts (twitterStorage posts, side panel displayedTweets)
\* have the same id.
C1_UniqueIds == NoRepeat(posts) /\ NoRepeat(displayedTweets)

\* C2: after any sequence of merge calls the retained posts are sorted
\* descending by instant: for i < j, entry i is not older than entry j.
C2_SortedDescending ==
  /\ \A i, j \in 1..Len(posts) :
       i < j => GetTime(posts[i].publishTime) >= GetTime(posts[j].publishTime)
  /\ \A i, j \in 1..Len(displayedTweets) :
       i < j => GetTime(displayedTweets[i].timestamp)
                  >= GetTime(displayedTweets[j].timestamp)

\* A small batch went into a store that already held older and newer posts.
C2_Witness ==
  /\ Len(posts) = MAX_RETAINED
  /\ ret \in 1..MaxBatch
  /\ \E i \in 2..(Len(posts) - 1) :
       /\ posts[i].id \in 1..MaxId
       /\ posts[1].publishTime # posts[i].publishTime
       /\ posts[Len(posts)].publishTime # posts[i].publishTime

\* The retained sequence kept is the newest part of pool, instants read by key.
NewestKept(pool, kept, key(_)) ==
  /\ Len(kept) = Min(MAX_RETAINED, Len(pool))
  /\ Range(kept) \subseteq Range(pool)
  /\ \A p \in Range(pool) \ Range(kept) : \A q \in Range(kept) : key(p) <= key(q)

\* What a merge call can find novel in the present state. A call with batch B
\* is the merge of uniqueNewPosts(B, posts); the side panel's updater gives
\* the same result for the transformed payload and for its novel part.
NovelOfSomeBatch == {uniqueNewPosts(newPosts, posts) : newPosts \in PostBatches}
NovelOfSomePayload ==
  {trulyNewTweets(transformedNewTweets(payload), displayedTweets) : payload \in RawBatches}

publishTimeOf(p) == GetTime(p.publishTime)
timestampOf(p) == GetTime(p.timestamp)

\* C3: after every merge call the store holds at most MAX_RETAINED posts and
\* they are the newest of (novel candidates and previously retained posts):
\* no post left out is newer than a retained one.
C3_NewestRetained ==
  [][ /\ \A unique \in NovelOfSomeBatch :
           setAllPosts(unique) => NewestKept(unique \o posts, posts', publishTimeOf)
      /\ \A new \in NovelOfSomePayload :
           setDisplayedTweets(new) =>
             NewestKept(displayedTweets \o new, displayedTweets', timestampOf) ]_vars

\* The long batch with strictly increasing instants went into the empty store:
\* the MAX_RETAINED newest of it are retained.
C3_Witness ==
  /\ ret = MAX_RETAINED + BulkExtra
  /\ Len(posts) = MAX_RETAINED
  /\ posts[1].publishTime = ToISO(MAX_RETAINED + BulkExtra)
  /\ posts[MAX_RETAINED].publishTime = ToISO(BulkExtra + 1)

\* C4: a merge call whose candidates (at least one) all carry ids already in
\* the store leaves the posts, the last-fetch time and the first-time flag as
\* they were and reports 0.
C4_KnownBatchChangesNothing ==
  [][ /\ \A newPosts \in PostBatches :
           (addPosts(newPosts) /\ Len(newPosts) > 0 /\ Ids(newPosts) \subseteq Ids(posts))
             => (UNCHANGED <<posts, lastFetchTime, isFirstTime>> /\ ret' = 0)
      /\ \A payload \in RawBatches :
           (/\ messageListener(payload)
            /\ Len(payload) > 0
            /\ Ids(transformedNewTweets(payload)) \subseteq Ids(displayedTweets))
             => (UNCHANGED <<displayedTweets, storedTweets, lastFetchTimestamp>>
                 /\ notification' = 0) ]_vars

\* C5: the number of new posts a merge reports is the number of distinct ids
\* of the batch that were absent from the store before the call.
C5_CountsDistinctIds ==
  [][ /\ \A newPosts \in PostBatches :
           addPosts(newPosts) => ret' = Cardinality(Ids(newPosts) \ Ids(posts))
      /\ \A payload \in RawBatches :
           messageListener(payload) =>
             notification' = Cardinality(Ids(transformedNewTweets(payload))
                                           \ Ids(displayedTweets)) ]_vars

\* C6: after a merge call that adds at least one novel post, the last-fetch
\* time is the instant of the first (newest) retained post and the first-time
\* flag is off.
C6_LastFetchIsNewestPost ==
  [][ /\ \A newPosts \in PostBatches :
           (addPosts(newPosts) /\ ret' > 0)
             => (lastFetchTime' = posts'[1].publishTime /\ isFirstTime' = FALSE)
      /\ \A payload \in RawBatches :
           (messageListener(payload) /\ notification' > 0)
             => lastFetchTimestamp' = displayedTweets'[1].timestamp ]_vars

\* C8: merging a batch a second time right after merging it leaves the
\* retained posts as the first merge left them.
C8_MergeIdempotent ==
  [][ /\ \A newPosts \in PostBatches :
           addPosts(newPosts) =>
             allPosts(uniqueNewPosts(newPosts, posts'), posts') = posts'
      /\ \A payload \in RawBatches :
           messageListener(payload) =>
             updatedTweetsForDisplayAndStorage(
               displayedTweets',
               trulyNewTweets(transformedNewTweets(payload), displayedTweets'))
               = displayedTweets' ]_vars

\* What one addPosts call, run alone on store s, leaves and returns.
AloneLeaves(s, newPosts) == allPosts(uniqueNewPosts(newPosts, s), s)
AloneReturns(s, newPosts) == Len(uniqueNewPosts(newPosts, s))

\* C7: store operations are atomic: when two overlapping addPosts calls on the
\* empty store have both returned, posts and the two returned counts are those
\* of running the two calls one after the other in some order; the ids of
\* posts are unique and the counts sum to the number of ids in the store.
C7_CallsSerializable ==
  (\A p \in Procs : pc[p] = "done") =>
    /\ \E a, b \in Procs :
         /\ a # b
         /\ posts = AloneLeaves(AloneLeaves(<<>>, newPostsOf[a]), newPostsOf[b])
         /\ retOf[a] = AloneReturns(<<>>, newPostsOf[a])
         /\ retOf[b] = AloneReturns(AloneLeaves(<<>>, newPostsOf[a]), newPostsOf[b])
    /\ NoRepeat(posts)
    /\ retOf["listener"] + retOf["autoStart"] = Cardinality(Ids(posts))

\* C9: at most one repeating refresh timer exists: every interval that was set
\* and not cleared is the one recorded in refreshIntervalId.
C9_OneTimer ==
  /\ activeTimers \subseteq {refreshIntervalId}
  /\ refreshIntervalId # 0 => refreshIntervalId \in activeTimers

\* The timer was restarted while one was running: the old interval is gone.
C9_Witness ==
  /\ refreshIntervalId = 2
  /\ activeTimers = {2}
  /\ twitterTabId # 0

\* C10: at most one scrape request sent to the tracked tab is unanswered.
C10_OneUnansweredRequest == twitterTabId # 0 => unanswered[twitterTabId] <= 1

\* A scrape request for tab t is on its way or being worked on.
ScrapeOutstanding(t) ==
  \/ unanswered[t] > 0
  \/ Call("sendMessageManual", t) \in calls
  \/ Call("sendMessageReloaded", t) \in calls

\* C11: at most one reload -> ready -> scrape cycle is in flight for the
\* tracked tab: when the timer callback issues chrome.tabs.reload, no earlier
\* reload is still pending (isReloadingForScrape) and no scrape request sent
\* to that tab is still unanswered.
C11_OneCycleInFlight ==
  [][ \A h \in 1..MaxTimers :
        (timerCallback(h) /\ twitterTabId # 0)
          => (~isReloadingForScrape /\ ~ScrapeOutstanding(twitterTabId)) ]_vars

\* START_TWITTER_MONITORING is sent or chrome.tabs.reload is called in this step
MonitorActs == \E i \in Starts : startWaited(i) \/ intervalFire(i) \/ tickWaited(i)

\* C12: stopping monitoring clears the timer: once stopMonitoring has run and
\* until startMonitoring is called again, no monitoring interval is active and
\* no tab reload or START_TWITTER_MONITORING message is issued; also when
\* stopMonitoring runs during the 5-second wait of startMonitoring and across
\* repeated start/stop sequences.
C12_StopClearsTimer ==
  /\ [](stopCalled => monTimers = {})
  /\ [][stopCalled => ~MonitorActs]_vars

\* Every state with a live interval has a tracked tab: each handler that sets
\* twitterTabId to null also clears the interval, and an interval is only set
\* with a tab tracked. So no timer callback ever finds twitterTabId unset.
TimerNeedsTab == activeTimers # {} => twitterTabId # 0

\* chrome API calls made in this step
Issued == calls' \ calls
HomeTabs == {t \in TabIds : tabs[t] = "home"}
NoTimer == refreshIntervalId = 0 /\ activeTimers = {}

\* C14: a manual fetch request first cancels any active timer; a new tab is
\* created only when no open tab is on a home URL, otherwise the first
\* matching tab is the target and is activated first when inactive; in both
\* cases the tab's id is recorded as twitterTabId before
\* EXECUTE_SCRAPE_REQUEST is sent to that tab.
C14_ManualFetchTargetsTab ==
  [][ /\ requestTweets => (NoTimer' /\ Issued = {Call("query", 0)})
      /\ queryCallback =>
           IF HomeTabs = {}
             THEN Issued = {Call("create", 0)} /\ UNCHANGED twitterTabId
             ELSE \E first \in HomeTabs :
                    /\ \A u \in HomeTabs : first <= u
                    /\ IF activeTab = first
                         THEN /\ Issued = {Call("sendMessageManual", first)}
                              /\ twitterTabId' = first
                         ELSE /\ Issued = {Call("update", first)}
                              /\ UNCHANGED twitterTabId
      /\ \A t \in TabIds :
           (updateCallback(t) /\ tabs[t] # "closed")
             => (Issued = {Call("sendMessageManual", t)} /\ twitterTabId' = t
                 /\ activeTab' = t)
      /\ createCallback(TRUE) =>
           \E t \in TabIds :
             /\ tabs[t] = "closed" /\ tabs'[t] = "home"
             /\ Issued = {Call("sendMessageManual", t)} /\ twitterTabId' = t
      /\ \A t \in TabIds : Call("sendMessageManual", t) \in Issued => twitterTabId' = t
      /\ Call("create", 0) \in Issued => HomeTabs = {} ]_vars

\* A fetch was requested while tab 1 was polled: the timer is gone, the open
\* home tab was found in the background, and its activation now records it and
\* sends the scrape request.
C14_Witness ==
  /\ NoTimer /\ tabs[1] = "home" /\ activeTab # 1
  /\ ENABLED (updateCallback(1) /\ twitterTabId' = 1
              /\ Call("sendMessageManual", 1) \in calls')

\* C15: a manual fetch that fails to activate or create the tab, or to deliver
\* the scrape request, sends FETCH_TWEETS_ERROR to the side panel and leaves
\* the orchestrator idle: no timer active and no tracked tab id.
C15_FailedFetchReportsAndIdles ==
  [][ \A t \in TabIds :
        \/ updateCallback(t) /\ tabs[t] = "closed"
        \/ createCallback(FALSE)
        \/ sendMessageManualCallback(t, FALSE)
        => (panelMessage'.type = "FETCH_TWEETS_ERROR" /\ NoTimer' /\ twitterTabId' = 0)
    ]_vars

\* C16: on SCRAPE_COMPLETE_RESPONSE (payload possibly empty) the payload is
\* forwarded to the side panel as TWEET_DATA_RESPONSE, and afterwards the
\* timer is active if and only if twitterTabId was set at that moment; a timer
\* that was running has been cleared and a new one set.
C16_ScrapeCompleteForwardsAndRearms ==
  [][ \A t \in TabIds : \A payload \in ScrapedPayloads :
        scrapeCompleteResponse(t, payload) =>
          /\ panelMessage' = [type |-> "TWEET_DATA_RESPONSE", content |-> payload]
          /\ IF twitterTabId # 0
               THEN /\ refreshIntervalId' # 0
                    /\ refreshIntervalId' \notin activeTimers
                    /\ activeTimers' = {refreshIntervalId'}
               ELSE NoTimer' ]_vars

\* A non-empty payload was forwarded while the timer was running: the old
\* interval (handle 1) is gone and a new one (handle 2) is set.
C16_Witness ==
  /\ panelMessage.type = "TWEET_DATA_RESPONSE"
  /\ panelMessage.content # <<>>
  /\ refreshIntervalId = 2
  /\ activeTimers = {2}

\* C17: on SCRAPE_ERROR_RESPONSE the error string is reported to the side
\* panel as FETCH_TWEETS_ERROR, the timer is cancelled and twitterTabId stays
\* as it was.
C17_ScrapeErrorReportsAndStops ==
  [][ \A t \in TabIds : \A error \in ScrapeErrors :
        scrapeErrorResponse(t, error) =>
          /\ panelMessage' = [type |-> "FETCH_TWEETS_ERROR", content |-> error]
          /\ NoTimer'
          /\ UNCHANGED twitterTabId ]_vars

\* The scrape of the tracked tab reports an error while the timer runs: the
\* handler's step stops the timer and keeps the tab.
C17_Witness ==
  /\ refreshIntervalId # 0 /\ twitterTabId = 1
  /\ ENABLED (scrapeErrorResponse(1, "scrape failed") /\ NoTimer' /\ twitterTabId' = 1)

\* C18: when issuing the reload on a timer fire fails, polling is aborted:
\* afterwards no timer is active, twitterTabId and reloadingTabId are null,
\* isReloadingForScrape is false, and the failing callback sends no scrape
\* request.
C18_ReloadFailureAbortsPolling ==
  [][ \A t \in TabIds :
        reloadCallback(t, TRUE) =>
          /\ NoTimer'
          /\ twitterTabId' = 0
          /\ ~isReloadingForScrape'
          /\ reloadingTabId' = 0
          /\ Issued = {}
          /\ UNCHANGED unanswered ]_vars

\* The timer fired for a tracked tab that is closed: the reload has failed,
\* with the timer still set and the reload marked pending, and its callback
\* aborts polling.
C18_Witness ==
  /\ twitterTabId = 1 /\ refreshIntervalId # 0
  /\ isReloadingForScrape /\ reloadingTabId = 1
  /\ ENABLED (reloadCallback(1, TRUE) /\ NoTimer' /\ twitterTabId' = 0)

C20_NavigationMismatchEndsSession ==
  [][ \A t \in TabIds :
        (onUpdated(t) /\ isReloadingForScrape /\ t = reloadingTabId /\ tabs[t] # "home")
          => /\ Issued = {}
             /\ UNCHANGED unanswered
             /\ NoTimer'
             /\ twitterTabId' = 0 ]_vars

\* The user left the home page while the timer's reload was pending; the
\* page's complete event ends the running poll.
C20_Witness ==
  /\ isReloadingForScrape /\ reloadingTabId = 1
  /\ tabs[1] = "other"
  /\ twitterTabId = 1 /\ refreshIntervalId # 0
  /\ ENABLED (onUpdated(1) /\ NoTimer' /\ twitterTabId' = 0)

\* C21: when the scrape request sent to the reloaded tab cannot be delivered,
\* the callback stops the timer and leaves twitterTabId at its value.
C21_UndeliveredRequestStopsTimer ==
  [][ \A t \in TabIds :
        sendMessageReloadedCallback(t, FALSE) =>
          /\ NoTimer'
          /\ UNCHANGED twitterTabId ]_vars

\* The request to the reloaded, tracked tab is in flight while the timer runs
\* and its delivery fails: the step stops the timer and keeps the tab.
C21_Witness ==
  /\ refreshIntervalId # 0 /\ activeTimers # {} /\ twitterTabId = 1
  /\ Call("sendMessageReloaded", 1) \in calls
  /\ ENABLED (sendMessageReloadedCallback(1, FALSE) /\ NoTimer' /\ twitterTabId' = 1)


\* an extraction step of the scroll collector is taken
ExtractionStep == scrollAttempts' = scrollAttempts + 1
Returned == scrollPc = "returned"

\* C22: every run of the scroll collector returns, after at least 1 and at
\* most maxScrollAttempts extraction steps; a run that returns below the
\* target with its last step having found new tweets (so every run below the
\* target all of whose steps found some) took exactly maxScrollAttempts steps,
\* and a run returns what it accumulated.
C22_RunTerminatesWithinAttempts ==
  /\ [](Returned =>
         /\ scrollAttempts \in 1..maxScrollAttempts
         /\ (foundNewTweetsInThisScroll /\ Len(collectedTweets) < minTweetsToCollect
               => scrollAttempts = maxScrollAttempts)
         /\ scrapeResponse = collectedTweets)
  /\ (scrollPc = "delay" ~> Returned)

\* A run returned below the target after ten steps, the last of which found a
\* new tweet.
C22_Witness ==
  /\ Returned /\ scrollAttempts = maxScrollAttempts
  /\ foundNewTweetsInThisScroll
  /\ Len(scrapeResponse) \in 1..(minTweetsToCollect - 1)

\* C23: a step other than the first that adds no new tweet ends the run at
\* once (no scroll, no suspension), whatever was collected; a first step that
\* adds none scrolls and suspends, and the run then takes a second step.
C23_NoNewContentStops ==
  [][ /\ (ExtractionStep /\ ~foundNewTweetsInThisScroll' /\ scrollAttempts' > 1
          => Returned' /\ scrolls' = scrolls)
      /\ (ExtractionStep /\ ~foundNewTweetsInThisScroll' /\ scrollAttempts' = 1
          => scrollPc' = "delay" /\ scrolls' = scrolls + 1)
      /\ (scrollPc = "delay" /\ scrollAttempts = 1 /\ ~foundNewTweetsInThisScroll
          => ExtractionStep) ]_vars

\* A run whose first two steps both found nothing: the first did not end it,
\* the second did, with nothing collected.
C23_Witness ==
  /\ Returned /\ scrollAttempts = 2 /\ scrolls = 1
  /\ ~foundNewTweetsInThisScroll /\ collectedTweets = <<>>

\* C24: when a stop condition holds after an extraction step (target reached,
\* attempt counter at maxScrollAttempts, or a step after the first without new
\* tweets), the run returns in that step without scrolling or suspending.
C24_NoScrollOnceStopped ==
  [][ ExtractionStep
      /\ (\/ Len(collectedTweets') >= minTweetsToCollect
          \/ scrollAttempts' = maxScrollAttempts
          \/ scrollAttempts' > 1 /\ ~foundNewTweetsInThisScroll')
      => Returned' /\ scrolls' = scrolls ]_vars

Keys(s) == {uniqueKey(s[i]) : i \in 1..Len(s)}

\* the elements of s whose key no earlier element of s has, in the order of s
FirstSeen(s) ==
  LET firsts == {i \in 1..Len(s) : \A j \in 1..(i - 1) : uniqueKey(s[j]) # uniqueKey(s[i])}
      F[k \in 0..Len(s)] ==
        IF k = 0 THEN <<>>
        ELSE IF k \in firsts THEN Append(F[k - 1], s[k]) ELSE F[k - 1]
  IN F[Len(s)]

\* C25: after every step of a run the collected tweets hold no two tweets
\* with the same uniqueKey and stand in the order in which they were first
\* seen (each extraction step leaves what was collected, followed by the
\* step's extraction in document order with every already seen key dropped),
\* and the run returns them as they are.
C25_CollectedUniqueInFirstSeenOrder ==
  [][ /\ Cardinality(Keys(collectedTweets')) = Len(collectedTweets')
      /\ (Returned' => scrapeResponse' = collectedTweets')
      /\ (ExtractionStep =>
            \A seen \in {collectedTweets
                           \o scrapeCurrentViewPortTweets(viewLo', viewHi', now')} :
               collectedTweets' = FirstSeen(seen)) ]_vars

\* A suspended run has collected item 8 and can take a step on the view 8..9
\* that adds exactly one tweet: one known tweet is dropped, one new one kept.
C25_Witness ==
  /\ scrollPc = "delay"
  /\ uniqueKey(scrapeElement(Feed(PromotedAt + 1), now)) \in collectedTweetUniqueIdentifiers
  /\ ENABLED (/\ scrollDelayElapsed(PromotedAt + 1, PromotedAt + 2)
              /\ Len(collectedTweets') = Len(collectedTweets) + 1)


\* C26: the identity of a post is the same at every extraction, so one feed
\* item (one author and text) is collected at most once in a run, whether or
\* not it carries a machine-readable datetime.
C26_SameItemCollectedOnce ==
  \A i, j \in 1..Len(collectedTweets) :
    /\ collectedTweets[i].author = collectedTweets[j].author
    /\ collectedTweets[i].content = collectedTweets[j].content
    => i = j

\* C27: two tweets of one extraction that differ in author, content or publish
\* instant have different ids.
C27_DistinctPostsDistinctIds ==
  \A i, j \in 1..Len(newTweets) :
    \/ newTweets[i].author # newTweets[j].author
    \/ newTweets[i].content # newTweets[j].content
    \/ newTweets[i].publishTime # newTweets[j].publishTime
    => newTweets[i].id # newTweets[j].id

\* the instant the normalization is to give an element at instant t: the
\* absolute datetime when it is there and parses, the relative-time result
\* when there is no absolute datetime, t when the absolute datetime does not
\* parse
normalizedInstant(el, t) ==
  IF el.dateTimeAttr = <<>> THEN parseRelativeTime(el.timeText, t)
  ELSE IF getTimeOfAttr(el.dateTimeAttr) = NaN THEN t
  ELSE getTimeOfAttr(el.dateTimeAttr)

normalizedInstants(lo, hi, t) ==
  LET F[i \in (lo - 1)..hi] ==
        IF i = lo - 1 THEN <<>>
        ELSE IF Article(i).isAd THEN F[i - 1]
        ELSE Append(F[i - 1], toISOString(normalizedInstant(Article(i), t)))
  IN F[hi]

\* C28: an extraction emits one tweet for every element that is no ad, in the
\* order of the elements, and its publishTime is the valid instant of the
\* normalization: no element is lost over its timestamp.
C28_EveryItemNormalized ==
  [][\A v \in ArticleViews :
       extractTweets(v[1], v[2])
       => [k \in 1..Len(newTweets') |-> newTweets'[k].publishTime]
            = normalizedInstants(v[1], v[2], DateNow)]_vars

\* a relative timestamp token: decimal digits and a unit
IsToken(text) ==
  /\ Len(text) >= 2
  /\ \A k \in 1..(Len(text) - 1) : text[k] \in Digits
  /\ text[Len(text)] \in Units
TokensOf(text) ==
  {tok \in (1..Len(text)) \X (1..Len(text)) :
     tok[1] < tok[2] /\ IsToken(SubSeq(text, tok[1], tok[2]))}
\* the units in milliseconds
UnitLength == "s" :> 1000 @@ "m" :> 60000 @@ "h" :> 3600000 @@ "d" :> 86400000

\* C29: the time text parsed at instant T gives T minus n units for its first
\* token <n><unit>, unit one of s, m, h, d, and T when it holds no token.
C29_RelativeTimeOffset ==
  LET T == 1000 * parsedAt
  IN IF TokensOf(timeText) = {} THEN publishTime = T
     ELSE \A tok \in TokensOf(timeText) :
            (\A other \in TokensOf(timeText) : tok[1] <= other[1])
            => publishTime
                 = T - parseInt(SubSeq(timeText, tok[1], tok[2] - 1))
                         * UnitLength[timeText[tok[2]]]

\* the text '2h' was parsed and gave the instant two hours before
C29_Witness ==
  /\ timeText = <<"2", "h">>
  /\ publishTime = 1000 * parsedAt - 2 * 3600 * 1000

\* a text with a token behind other characters was parsed
C29_WitnessInnerToken ==
  /\ timeText = <<"x", "3", "d", "1", "h">>
  /\ publishTime = 1000 * parsedAt - 3 * 86400 * 1000

\* C30: every tweet an extraction emits has content, an author and a valid
\* display timestamp; an element without tweet text gives no tweet.
C30_EmittedPostsWellFormed ==
  \A k \in 1..Len(newTweets) :
    /\ newTweets[k].content # <<>>
    /\ newTweets[k].author # <<>>
    /\ newTweets[k].timestamp # <<NaN>>

\* how many posts of the sequence after are not posts of the sequence before,
\* a post that stands k times counting k times
CopiesOf(s, x) == Cardinality({i \in 1..Len(s) : s[i] = x})
Added(before, after) ==
  Cardinality({i \in 1..Len(after) :
                 Cardinality({j \in 1..i : after[j] = after[i]}) > CopiesOf(before, after[i])})

\* C31: the count of the TWEETS_UPDATED message a monitorTwitter run sends is
\* the number of posts its merge added to the store.
C31_CountIsNumberAdded ==
  [][\A p \in Procs :
       monitorTwitter_set(p) => tweetsUpdated'[p] = Added(posts, posts')]_vars

\* C32: when a run has read the newest instant of the store, every extracted
\* tweet whose id the store does not hold is among the tweets it hands to
\* addPosts, whatever its instant.
C32_NovelPostsReachMerge ==
  [][\A p \in Procs :
       monitorTwitter_latest(p)
       => \A i \in 1..Len(newTweetsOf[p]) :
            newTweetsOf[p][i].id \notin Ids(posts)
            => newTweetsOf[p][i] \in Range(newPostsOf'[p])]_vars

\* The two reload flags are set together (timer callback) and cleared together
\* (reload failure, reloaded tab ready): no state has a pending tab without a
\* pending reload, so the second branch of the onUpdated listener is never
\* taken.
ReloadFlagsTogether == isReloadingForScrape <=> reloadingTabId # 0

\* the handlers that call stopPeriodicRefresh for a manual fetch request, a
\* scrape error or a send failure
StopsPolling ==
  \/ requestTweets
  \/ \E t \in TabIds : \E error \in ScrapeErrors : scrapeErrorResponse(t, error)
  \/ \E t \in TabIds : sendMessageManualCallback(t, FALSE)
  \/ \E t \in TabIds : sendMessageReloadedCallback(t, FALSE)

\* C34: when stopPeriodicRefresh has run for a manual fetch request, a scrape
\* error or a send failure, no reload is pending (isReloadingForScrape false,
\* reloadingTabId null), and a load-complete event that arrives while polling
\* is stopped sends no scrape request.
C34_StopClearsReloadFlags ==
  [][ /\ StopsPolling => (~isReloadingForScrape' /\ reloadingTabId' = 0)
      /\ \A t \in TabIds :
           (onUpdated(t) /\ refreshIntervalId = 0)
             => Call("sendMessageReloaded", t) \notin Issued ]_vars

\* C36: isReloadingForScrape is true exactly when reloadingTabId is non-null,
\* and while a reload is pending reloadingTabId is the tracked tab
\* twitterTabId.
C36_PendingReloadIsTrackedTab ==
  /\ isReloadingForScrape <=> reloadingTabId # 0
  /\ isReloadingForScrape => reloadingTabId = twitterTabId

\* C37: an active timer implies a tracked tab: refreshIntervalId is non-null
\* only if twitterTabId is non-null.
C37_TimerImpliesTrackedTab == refreshIntervalId # 0 => twitterTabId # 0

\* polling: the timer is active for the tracked tab and has started a reload
C37_Witness ==
  /\ refreshIntervalId # 0
  /\ twitterTabId # 0
  /\ isReloadingForScrape

\* C38: a merge that reports a positive number of new posts has put at least
\* one post into the retained posts that was not there before the call.
C38_ReportedPostWasRetained ==
  [][ /\ \A newPosts \in PostBatches :
           (addPosts(newPosts) /\ ret' > 0)
             => \E i \in 1..Len(posts') : posts'[i] \notin Range(posts)
      /\ \A payload \in RawBatches :
           (messageListener(payload) /\ notification' > 0)
             => \E i \in 1..Len(displayedTweets') :
                  displayedTweets'[i] \notin Range(displayedTweets) ]_vars

\* C39: after a merge getLatestTimestamp gives null exactly when no post is
\* retained, otherwise the greatest publishTime of the retained posts, and
\* what it gives is not earlier than before the merge.
C39_LatestNeverDecreases ==
  [][\A newPosts \in PostBatches :
       addPosts(newPosts)
       => /\ getLatestTimestamp(posts') = -1 <=> Len(posts') = 0
          /\ \A i \in 1..Len(posts') :
               GetTime(posts'[i].publishTime) <= getLatestTimestamp(posts')
          /\ getLatestTimestamp(posts') >= getLatestTimestamp(posts)]_vars

\* a merge has added posts and the store holds posts of different instants,
\* the newest in front
C39_Witness ==
  /\ ret > 0
  /\ Len(posts) >= 2
  /\ GetTime(posts[Len(posts)].publishTime) < getLatestTimestamp(posts)

\* the states the polling claim speaks of
ScrapeCompleteReceived == panelMessage.type = "TWEET_DATA_RESPONSE" /\ twitterTabId # 0
ScrapeRequestSent == \E t \in TabIds : Call("sendMessageReloaded", t) \in calls
TabLost == twitterTabId = 0 \/ tabs[twitterTabId] # "home"
\* a manual fetch is under way: the side panel waits for it, or one of the
\* chrome calls of FETCH_TWEETS_REQUEST awaits its callback
ManualFetch ==
  \/ isLoading
  \/ \E c \in calls : c.api \in {"query", "create", "update", "sendMessageManual"}

ErrorReported == panelMessage.type = "FETCH_TWEETS_ERROR"

====
